---- MODULE Spec2Model ----
(***************************************************************************)
(* Model of src/held-karp.py: the three Bellman-Held-Karp solvers          *)
(* held_karp_recursive, held_karp_topdown and held_karp_bottomup.          *)
(*                                                                         *)
(* A distance is a non-negative rational k/scale held as the integer k;    *)
(* scale = 1 gives integer distances, scale = 2000 gives multiples of      *)
(* 0.0005, a unit finer than the 0.001 tolerance of held_karp_bottomup.    *)
(* Python lists are functions over 0..len-1.  A call that ends in an       *)
(* uncaught Python exception ends with pc (or err) naming the exception.   *)
(***************************************************************************)
EXTENDS Integers, Sequences, FiniteSets, TLC

VARIABLES d, scale, solver, rec, td, bu

vars == <<d, scale, solver, rec, td, bu>>

(* ------------------------------ bounds -------------------------------- *)

\* largest number of cities (rows) of an input matrix under Spec
MaxN == 3

\* largest number of cells of a matrix that differ from its base value
MaxHeavy == 2

\* largest distance, in units of 1/scale
MaxDist == 1

\* the reconstruction loop of held_karp_topdown is followed until the path
\* holds this many entries more than a tour has (it never ends for n = 1)
MaxExtra == 2

(* ------------------------- program constants -------------------------- *)

\* sys.maxint.  Its value, 2^63 - 1, is above every integer of the model, so
\* it is held as this mark, which no distance takes (distances are not
\* negative); Better and Plus read the mark as a number above every integer
SysMaxint == -2

\* the tolerance 0.001 is 1/TolDen
TolDen == 1000

\* None, the initial content of the dp and child tables
None == -1

\* the denominators of the distances: integers, and multiples of 0.0005
Scales == {1, 2000}

(* ------------------------------ helpers ------------------------------- *)

RECURSIVE Pow2(_)
Pow2(k) == IF k = 0 THEN 1 ELSE 2 * Pow2(k - 1)

\* len(distance_matrix)
Len0(m) == Cardinality(DOMAIN m)

\* (1 << n) - 1
Full(n) == Pow2(n) - 1

\* (1 << j) & visited, as a truth value
Bit(j, visited) == (visited \div Pow2(j)) % 2 = 1

\* visited | (1 << j)
SetBit(visited, j) == IF Bit(j, visited) THEN visited ELSE visited + Pow2(j)

\* whether d[i][j] is a valid index pair (otherwise Python raises IndexError)
InRange(m, i, j) == i \in DOMAIN m /\ j \in DOMAIN m[i]

\* the truth value of a table entry in `if dp[i][visited]:`
Truthy(x) == x # None /\ x # 0

Abs(x) == IF x < 0 THEN -x ELSE x

\* d[i][0], the cost of closing the tour from city i
ReturnCost(m, i) == m[i][0]

\* a + b; a sum with sys.maxint is not below sys.maxint, which is all the
\* code asks of it, and is held as sys.maxint
Plus(a, b) == IF a = SysMaxint \/ b = SysMaxint THEN SysMaxint ELSE a + b

\* whether the float sums behind two costs that are equal as exact numbers
\* can differ: integer distances (sc = 1) add exactly, and a sum of
\* non-negative distances that is 0 has only zero terms; any other sum of
\* floats is rounded (0.1 + 0.2 is 0.30000000000000004, 0.3 + 0.0 is 0.3)
Rounded(x, sc) == sc # 1 /\ x # 0 /\ x # SysMaxint

\* a slip that also replaces the minimum on a tie
BetterOrEqual(dist, min_dist, sc) ==
    IF \/ dist = min_dist
       \/ dist # SysMaxint /\ (min_dist = SysMaxint \/ dist < min_dist)
    THEN {TRUE}
    ELSE {FALSE}

\* the truth values `dist_with_j < min_dist` can take: whether a candidate
\* replaces the minimum so far.  Between two rounded sums of equal exact
\* value rounding decides the test and either value can come out; sys.maxint
\* is above every integer of the model
Better(dist, min_dist, sc) ==
    IF dist # SysMaxint /\ (min_dist = SysMaxint \/ dist < min_dist) THEN {TRUE}
    ELSE IF dist = min_dist /\ Rounded(dist, sc) THEN {TRUE, FALSE}
    ELSE {FALSE}

\* the truth values `abs(x) < 0.001` can take for x given in units of 1/sc.
\* The code evaluates x and the test in binary floating point: when abs(x) is
\* 0.001 exactly, rounding decides the test and either value can come out
\* ((1.0 - 0.0) - 1.001 passes, (0.0 - 0.0005) - 0.0005 does not)
WithinTol(x, sc) ==
    IF Abs(x) * TolDen < sc THEN {TRUE}
    ELSE IF Abs(x) * TolDen = sc THEN {TRUE, FALSE}
    ELSE {FALSE}

\* the truth values `abs((cost_from_i - cost_from_j) - d[i][j]) < 0.001` can
\* take.  An operand that is sys.maxint counts 2^63 - 1: when the sys.maxint
\* operands do not cancel the difference is far from 0; when they cancel, the
\* difference of the other operands is tested, exactly on integers, while on
\* floats the small operands are lost in rounding next to 2^63 and either
\* value can come out
TolTest(cost_from_i, cost_from_j, d_ij, sc) ==
    LET big(x) == IF x = SysMaxint THEN 1 ELSE 0
        small(x) == IF x = SysMaxint THEN 0 ELSE x
    IN  IF big(cost_from_i) - big(cost_from_j) - big(d_ij) # 0 THEN {FALSE}
        ELSE IF sc # 1 /\ SysMaxint \in {cost_from_i, cost_from_j, d_ij}
        THEN {TRUE, FALSE}
        ELSE WithinTol((small(cost_from_i) - small(cost_from_j)) - small(d_ij), sc)

\* [[None for i in xrange(2**n)] for j in xrange(n)]
NewTable(n) == [i \in 0 .. n - 1 |-> [v \in 0 .. Pow2(n) - 1 |-> None]]

\* a table of counters over the same index set (ghost state)
ZeroTable(n) == [i \in 0 .. n - 1 |-> [v \in 0 .. Pow2(n) - 1 |-> 0]]

(* ------------------------ held_karp_recursive ------------------------- *)

RecOk(dist, path) == [err |-> "", dist |-> dist, path |-> path]

RecErr(e) == [err |-> e, dist |-> 0, path |-> << >>]

\* the local min_path of f before its first assignment
Unbound == << >>

RECURSIVE RecF(_, _, _, _, _)
RECURSIVE RecLoop(_, _, _, _, _, _, _, _)

\* what the for loop of f can return, from city j on, with the current
\* min_dist and min_path; `return min_dist, min_path` raises
\* UnboundLocalError when no candidate was below sys.maxint
RecLoop(m, i, visited, path_so_far, j, min_dist, min_path, sc) ==
    IF j >= Len0(m)
    THEN {IF min_path = Unbound THEN RecErr("UnboundLocalError")
          ELSE RecOk(min_dist, min_path)}
    ELSE IF Bit(j, visited)
    THEN RecLoop(m, i, visited, path_so_far, j + 1, min_dist, min_path, sc)
    ELSE UNION {
        IF r.err # "" THEN {r}
        ELSE IF ~InRange(m, i, j) THEN {RecErr("IndexError")}
        ELSE LET dist_with_j == Plus(m[i][j], r.dist)
             IN  UNION {
                 IF b
                 THEN RecLoop(m, i, visited, path_so_far, j + 1,
                              dist_with_j, r.path, sc)
                 ELSE RecLoop(m, i, visited, path_so_far, j + 1,
                              min_dist, min_path, sc)
                 : b \in Better(dist_with_j, min_dist, sc)}
        : r \in RecF(m, j, SetBit(visited, j), Append(path_so_far, j), sc)}

\* what f(i, visited, path_so_far) of held_karp_recursive can return
RecF(m, i, visited, path_so_far, sc) ==
    IF visited = Full(Len0(m))
    THEN IF InRange(m, i, 0)
         THEN {RecOk(ReturnCost(m, i), Append(path_so_far, 0))}
         ELSE {RecErr("IndexError")}
    ELSE RecLoop(m, i, visited, path_so_far, 0, SysMaxint, Unbound, sc)

\* what held_karp_recursive(distance_matrix) can return
held_karp_recursive(m, sc) == RecF(m, 0, 0, << >>, sc)

(* ------------------------- held_karp_topdown -------------------------- *)

\* a slip that reads the edge from j to i instead of the edge from i to j
EdgeCostReversed(m, i, j) == m[j][i]

\* d[i][j], the cost of going from the current city i to city j
EdgeCost(m, i, j) == m[i][j]

\* one activation of f: its arguments i and visited and its locals
Frame(i, visited) ==
    [i |-> i, visited |-> visited, j |-> 0,
     min_dist |-> SysMaxint, chosen_j |-> None]

\* the solver when it is not the one running
TDIdle ==
    [pc |-> "idle", dp |-> << >>, child |-> << >>, stack |-> << >>,
     arg_i |-> 0, arg_v |-> 0, ret |-> None, ans |-> None, path |-> << >>,
     visited |-> 0, next_ |-> None, computed |-> << >>, writes |-> << >>]

\* the tables allocated, about to evaluate ans = f(0, 1)
TDInit(m) ==
    [TDIdle EXCEPT !.pc = "call",
                   !.dp = NewTable(Len0(m)), !.child = NewTable(Len0(m)),
                   !.arg_i = 0, !.arg_v = 1,
                   !.computed = ZeroTable(Len0(m)),
                   !.writes = ZeroTable(Len0(m))]

\* the next j >= j0 of `for j in xrange(n)` with bit j of visited clear, or n
RECURSIVE NextUnvisited(_, _, _)
NextUnvisited(j0, visited, n) ==
    IF j0 >= n THEN n
    ELSE IF Bit(j0, visited) THEN NextUnvisited(j0 + 1, visited, n)
    ELSE j0

\* f is entered with (arg_i, arg_v): the table check, the base case, or the
\* start of the minimisation loop
TDCallStep(m, s) ==
    LET i == s.arg_i
        v == s.arg_v
    IN  IF ~InRange(s.dp, i, v) THEN [s EXCEPT !.pc = "IndexError"]
        ELSE IF Truthy(s.dp[i][v])
        THEN [s EXCEPT !.pc = "return", !.ret = s.dp[i][v]]
        ELSE IF v = Full(Len0(m))
        THEN IF ~InRange(m, i, 0) THEN [s EXCEPT !.pc = "IndexError"]
             ELSE [s EXCEPT !.pc = "return", !.ret = ReturnCost(m, i),
                            !.dp[i][v] = ReturnCost(m, i), !.child[i][v] = 0,
                            !.computed[i][v] = @ + 1,
                            !.writes[i][v] = @ + 1]
        ELSE [s EXCEPT !.pc = "loop",
                       !.stack = Append(s.stack, Frame(i, v)),
                       !.computed[i][v] = @ + 1]

\* the for loop of the top activation: call f for the next unvisited j, or
\* store the minimum and return it
TDLoopStep(m, s) ==
    LET k == Len(s.stack)
        fr == s.stack[k]
        j == NextUnvisited(fr.j, fr.visited, Len0(m))
    IN  IF j >= Len0(m)
        THEN [s EXCEPT !.pc = "return", !.ret = fr.min_dist,
                       !.dp[fr.i][fr.visited] = fr.min_dist,
                       !.child[fr.i][fr.visited] = fr.chosen_j,
                       !.writes[fr.i][fr.visited] = @ + 1,
                       !.stack = SubSeq(s.stack, 1, k - 1)]
        ELSE IF ~InRange(m, fr.i, j) THEN [s EXCEPT !.pc = "IndexError"]
        ELSE [s EXCEPT !.pc = "call", !.stack[k].j = j,
                       !.arg_i = j, !.arg_v = SetBit(fr.visited, j)]

\* the states after f has returned ret: to the loop of the caller, or to
\* held_karp_topdown, which keeps it as ans and starts the walk through child
TDReturnStep(m, s, sc) ==
    LET k == Len(s.stack)
    IN  IF k = 0
        THEN IF ~InRange(s.child, 0, 1) THEN {[s EXCEPT !.pc = "IndexError"]}
             ELSE {[s EXCEPT !.pc = "recon", !.ans = s.ret, !.path = <<0>>,
                             !.visited = 1, !.next_ = s.child[0][1]]}
        ELSE LET fr == s.stack[k]
                 dist_with_j == Plus(EdgeCost(m, fr.i, fr.j), s.ret)
             IN  {IF b
                  THEN [s EXCEPT !.pc = "loop", !.stack[k].j = fr.j + 1,
                                 !.stack[k].min_dist = dist_with_j,
                                 !.stack[k].chosen_j = fr.j]
                  ELSE [s EXCEPT !.pc = "loop", !.stack[k].j = fr.j + 1]
                  : b \in Better(dist_with_j, fr.min_dist, sc)}

\* one test of `while next_ is not None` and, when it passes, the loop body
TDReconStep(m, s) ==
    IF s.next_ = None THEN [s EXCEPT !.pc = "done"]
    ELSE LET visited == SetBit(s.visited, s.next_)
         IN  [s EXCEPT !.path = Append(s.path, s.next_),
                       !.visited = visited,
                       !.next_ = s.child[s.next_][visited]]

\* the reconstruction loop is followed while the path is at most MaxExtra
\* entries longer than a tour
TDReconBound(m, s) == Len(s.path) < Len0(m) + 1 + MaxExtra

\* the states after one step of held_karp_topdown
TDStep(m, s, sc) ==
    CASE s.pc = "call" -> {TDCallStep(m, s)}
      [] s.pc = "loop" -> {TDLoopStep(m, s)}
      [] s.pc = "return" -> TDReturnStep(m, s, sc)
      [] s.pc = "recon" -> {TDReconStep(m, s)}
      [] OTHER -> {s}

\* the states held_karp_topdown can end in when run from state s until it
\* returns, raises, or its reconstruction loop passes the bound
RECURSIVE TDRun(_, _, _)
TDRun(m, s, sc) ==
    IF s.pc \in {"done", "IndexError", "idle"} THEN {s}
    ELSE IF s.pc = "recon" /\ ~TDReconBound(m, s) THEN {s}
    ELSE UNION {TDRun(m, t, sc) : t \in TDStep(m, s, sc)}

\* the states held_karp_topdown(distance_matrix) can end in
held_karp_topdown(m, sc) == TDRun(m, TDInit(m), sc)

(* ------------------------- held_karp_bottomup ------------------------- *)

\* the solver when it is not the one running
BUIdle ==
    [pc |-> "idle", dp |-> << >>, i |-> 0, visited |-> 0, ans |-> None,
     path |-> << >>, cost_from_i |-> None, writes |-> << >>]

\* the table allocated, about to run the base-case loop
BUInit(m) ==
    [BUIdle EXCEPT !.pc = "base", !.dp = NewTable(Len0(m)),
                   !.writes = ZeroTable(Len0(m))]

\* a slip that leaves out the largest mask below FULL
FillStartSkip(n) == Full(n) - 2

\* the first value of `for visited in reversed(xrange((1<<n)-1))`
FillStart(n) == Full(n) - 1

\* the index dp[j][...] that the fill loop reads for an unvisited j
Dep(visited, j) == SetBit(visited, j)

\* one iteration of the base-case loop, or its end
BUBaseStep(m, s) ==
    LET n == Len0(m)
    IN  IF s.i >= n
        THEN IF FillStart(n) < 0 THEN [s EXCEPT !.pc = "ans"]
             ELSE [s EXCEPT !.pc = "fill", !.visited = FillStart(n), !.i = 0]
        ELSE IF ~InRange(m, s.i, 0) THEN [s EXCEPT !.pc = "IndexError"]
        ELSE [s EXCEPT !.dp[s.i][Full(n)] = ReturnCost(m, s.i),
                       !.writes[s.i][Full(n)] = @ + 1,
                       !.i = s.i + 1]

\* what the loop `for j in xrange(n)` of the fill can end with, from j on:
\* the minimum, or the exception raised by d[i][j] + dp[j][visited | (1 << j)]
RECURSIVE BUInner(_, _, _, _, _, _, _)
BUInner(m, dp, i, visited, j, min_dist, sc) ==
    IF j >= Len0(m) THEN {[err |-> "", val |-> min_dist]}
    ELSE IF Bit(j, visited) THEN BUInner(m, dp, i, visited, j + 1, min_dist, sc)
    ELSE IF ~InRange(m, i, j) THEN {[err |-> "IndexError", val |-> None]}
    ELSE IF dp[j][Dep(visited, j)] = None
    THEN {[err |-> "TypeError", val |-> None]}
    ELSE LET dist_j == Plus(m[i][j], dp[j][Dep(visited, j)])
         IN  UNION {
             IF b
             THEN BUInner(m, dp, i, visited, j + 1, dist_j, sc)
             ELSE BUInner(m, dp, i, visited, j + 1, min_dist, sc)
             : b \in Better(dist_j, min_dist, sc)}

\* the body of `for i in xrange(n)` for the current visited and i once the
\* inner loop has ended with r, and the move to the next i or the next visited
BUStore(m, s, r) ==
    LET n == Len0(m)
        w == [s EXCEPT !.dp[s.i][s.visited] = r.val,
                       !.writes[s.i][s.visited] = @ + 1]
    IN  IF r.err # "" THEN [s EXCEPT !.pc = r.err]
        ELSE IF s.i + 1 < n THEN [w EXCEPT !.i = s.i + 1]
        ELSE IF s.visited = 0 THEN [w EXCEPT !.pc = "ans"]
        ELSE [w EXCEPT !.visited = s.visited - 1, !.i = 0]

\* the states after the body of `for i in xrange(n)` for the current
\* visited and i
BUFillStep(m, s, sc) ==
    {BUStore(m, s, r) : r \in BUInner(m, s.dp, s.i, s.visited, 0, SysMaxint, sc)}

\* ans = dp[0][1] and the start of the reconstruction
BUAnsStep(m, s) ==
    IF ~InRange(s.dp, 0, 1) THEN [s EXCEPT !.pc = "IndexError"]
    ELSE [s EXCEPT !.pc = "recon", !.ans = s.dp[0][1], !.path = <<0>>,
                   !.i = 0, !.visited = 1, !.cost_from_i = s.dp[0][1]]

\* the values `for j in xrange(n)` can break at, from j0 on: the first
\* unvisited j that passes the tolerance test, with n for a loop that ends
\* without a break; more than one value when rounding decides a test
RECURSIVE BUMatch(_, _, _, _)
BUMatch(m, s, sc, j0) ==
    IF j0 >= Len0(m) THEN {Len0(m)}
    ELSE IF Bit(j0, s.visited) THEN BUMatch(m, s, sc, j0 + 1)
    ELSE LET cost_from_j == s.dp[j0][SetBit(s.visited, j0)]
             test == TolTest(s.cost_from_i, cost_from_j, m[s.i][j0], sc)
         IN  (IF TRUE \in test THEN {j0} ELSE {})
                 \cup (IF FALSE \in test THEN BUMatch(m, s, sc, j0 + 1) ELSE {})

\* the body of the for loop at the j it breaks at: path.append(j) and the
\* move to j; for j = n the loop ended without a break and nothing changes
BUAppend(s, j) ==
    IF j \notin DOMAIN s.dp THEN s
    ELSE [s EXCEPT !.path = Append(s.path, j), !.i = j,
                   !.visited = SetBit(s.visited, j),
                   !.cost_from_i = s.dp[j][SetBit(s.visited, j)]]

\* the states after one test of `while visited != (1 << n)-1` and, when it
\* passes, the for loop in its body; when the while loop ends,
\* path.append(0) and the return
BUReconStep(m, s, sc) ==
    IF s.visited = Full(Len0(m))
    THEN {[s EXCEPT !.pc = "done", !.path = Append(s.path, 0)]}
    ELSE {BUAppend(s, j) : j \in BUMatch(m, s, sc, 0)}

(* ------------------------------ inputs -------------------------------- *)

Solvers == {"recursive", "topdown", "bottomup"}

Cells(r, c) == (0 .. r - 1) \X (0 .. c - 1)

\* the sets of at most k cells
RECURSIVE HeavySets(_, _)
HeavySets(cells, k) ==
    IF k = 0 THEN {{}}
    ELSE LET S == HeavySets(cells, k - 1)
         IN  S \cup {H \cup {c} : H \in S, c \in cells}

\* the r x c matrices over the given distances whose entries are a base
\* value b except for at most heavy cells, which hold v
MatricesWith(r, c, distances, heavy) ==
    {[i \in 0 .. r - 1 |-> [j \in 0 .. c - 1 |->
          IF <<i, j>> \in H THEN v ELSE b]] :
       b \in distances, v \in distances,
       H \in HeavySets(Cells(r, c), heavy)}

\* those with distances up to MaxDist and at most MaxHeavy cells apart
MatricesOf(r, c) == MatricesWith(r, c, 0 .. MaxDist, MaxHeavy)

\* the valid inputs: square matrices of 1 to k cities
SquareUpTo(k) == UNION {MatricesOf(n, n) : n \in 1 .. k}

\* the invalid inputs: no rows, or rows whose length is not the row count
NonSquare(k) ==
    UNION {MatricesOf(sh[1], sh[2]) :
             sh \in {p \in (0 .. k) \X (0 .. k) : p[1] # p[2] \/ p[1] = 0}}

IsSquare(m) == Len0(m) >= 1 /\ \A i \in DOMAIN m : Len0(m[i]) = Len0(m)

RecStart == [pc |-> "start", dist |-> None, path |-> << >>]

RecIdle == [pc |-> "idle", dist |-> None, path |-> << >>]

\* one call of one solver on one matrix, about to run; the solvers of
\* floats are run on matrices of floats as well as of integers
InitOn(inputs, floats) ==
    /\ d \in inputs
    /\ solver \in Solvers
    /\ scale \in IF solver \in floats THEN Scales ELSE {1}
    /\ rec = IF solver = "recursive" THEN RecStart ELSE RecIdle
    /\ td = IF solver = "topdown" THEN TDInit(d) ELSE TDIdle
    /\ bu = IF solver = "bottomup" THEN BUInit(d) ELSE BUIdle

\* the unit of the distances changes the tolerance test of
\* held_karp_bottomup; in the other two solvers it only changes which of two
\* tied cities is kept, which InitFloat covers
Init == InitOn(SquareUpTo(MaxN), {"bottomup"})

\* square matrices of integers in which a distance can also be sys.maxint,
\* the value min_dist starts from
InitBig ==
    InitOn(UNION {MatricesWith(n, n, (0 .. MaxDist) \cup {SysMaxint}, MaxHeavy) :
                    n \in 1 .. MaxN},
           {})

\* every solver on integers as under Spec, and held_karp_topdown on floats
\* as well: on the square matrices with one cell fewer apart, in which
\* every comparison of two rounded sums can go either way
InitRelabel ==
    \/ InitOn(SquareUpTo(MaxN), {})
    \/ /\ InitOn(UNION {MatricesWith(n, n, 0 .. MaxDist, MaxHeavy - 1) :
                          n \in 1 .. MaxN},
                  {"topdown"})
       /\ solver = "topdown"
       /\ scale # 1

\* every solver on integers and on floats
InitFloat == InitOn(SquareUpTo(MaxN), Solvers)

\* one city more than under Spec: the least n at which two routes of
\* held_karp_topdown reach the same state (i, visited)
InitMemo == InitOn(SquareUpTo(MaxN + 1), {"bottomup"})

InitShape == InitOn(NonSquare(MaxN), {"bottomup"})

(* ------------------------------ actions ------------------------------- *)

\* the whole call held_karp_recursive(d)
RunRecursive ==
    /\ rec.pc = "start"
    /\ \E r \in held_karp_recursive(d, scale) :
           rec' = [pc |-> IF r.err = "" THEN "done" ELSE r.err,
                   dist |-> IF r.err = "" THEN r.dist ELSE None,
                   path |-> r.path]
    /\ UNCHANGED <<d, scale, solver, td, bu>>

TDCall ==
    /\ td.pc = "call"
    /\ td' = TDCallStep(d, td)
    /\ UNCHANGED <<d, scale, solver, rec, bu>>

TDLoop ==
    /\ td.pc = "loop"
    /\ td' = TDLoopStep(d, td)
    /\ UNCHANGED <<d, scale, solver, rec, bu>>

TDReturn ==
    /\ td.pc = "return"
    /\ td' \in TDReturnStep(d, td, scale)
    /\ UNCHANGED <<d, scale, solver, rec, bu>>

TDRecon ==
    /\ td.pc = "recon"
    /\ TDReconBound(d, td)
    /\ td' = TDReconStep(d, td)
    /\ UNCHANGED <<d, scale, solver, rec, bu>>

BUBase ==
    /\ bu.pc = "base"
    /\ bu' = BUBaseStep(d, bu)
    /\ UNCHANGED <<d, scale, solver, rec, td>>

BUFill ==
    /\ bu.pc = "fill"
    /\ bu' \in BUFillStep(d, bu, scale)
    /\ UNCHANGED <<d, scale, solver, rec, td>>

BUAns ==
    /\ bu.pc = "ans"
    /\ bu' = BUAnsStep(d, bu)
    /\ UNCHANGED <<d, scale, solver, rec, td>>

BURecon ==
    /\ bu.pc = "recon"
    /\ bu' \in BUReconStep(d, bu, scale)
    /\ UNCHANGED <<d, scale, solver, rec, td>>

Next ==
    \/ RunRecursive
    \/ TDCall
    \/ TDLoop
    \/ TDReturn
    \/ TDRecon
    \/ BUBase
    \/ BUFill
    \/ BUAns
    \/ BURecon

Spec == Init /\ [][Next]_vars

SpecBig == InitBig /\ [][Next]_vars

SpecRelabel == InitRelabel /\ [][Next]_vars

SpecFloat == InitFloat /\ [][Next]_vars

SpecMemo == InitMemo /\ [][Next]_vars

SpecShape == InitShape /\ [][Next]_vars

(* ------------------- what the claims are stated in -------------------- *)

\* the number of cities
N == Len0(d)

\* the running solver has returned (cost, tour)
Done ==
    \/ solver = "recursive" /\ rec.pc = "done"
    \/ solver = "topdown" /\ td.pc = "done"
    \/ solver = "bottomup" /\ bu.pc = "done"

\* the returned cost
Cost ==
    CASE solver = "recursive" -> rec.dist
      [] solver = "topdown" -> td.ans
      [] OTHER -> bu.ans

\* the returned tour, or the path built so far
Tour ==
    CASE solver = "recursive" -> rec.path
      [] solver = "topdown" -> td.path
      [] OTHER -> bu.path

\* the sum of m[t[k]][t[k+1]] over the consecutive entries of t
RECURSIVE TourCost(_, _)
TourCost(m, t) ==
    IF Len(t) < 2 THEN 0
    ELSE m[t[1]][t[2]] + TourCost(m, Tail(t))

\* the orderings of the cities of S
Orderings(S) ==
    {p \in [1 .. Cardinality(S) -> S] : \A a, b \in DOMAIN p : p[a] = p[b] => a = b}

\* a number of the model as the pair <<k, x>> that stands for
\* k * sys.maxint + x; x stays far below sys.maxint
Num(x) == IF x = SysMaxint THEN <<1, 0>> ELSE <<0, x>>

NumLeq(a, b) == a[1] < b[1] \/ (a[1] = b[1] /\ a[2] <= b[2])

\* the exact sum of m[t[k]][t[k+1]] over the consecutive entries of t
RECURSIVE ExactTourCost(_, _)
ExactTourCost(m, t) ==
    IF Len(t) < 2 THEN <<0, 0>>
    ELSE LET e == Num(m[t[1]][t[2]])
             rest == ExactTourCost(m, Tail(t))
         IN  <<e[1] + rest[1], e[2] + rest[2]>>

\* the tours [0, p1, .., p(n-1), 0]
Tours(m) == {<<0>> \o p \o <<0>> : p \in Orderings(1 .. Len0(m) - 1)}

\* the cost of the cheapest Hamiltonian cycle through city 0, by enumeration
BruteForce(m) ==
    LET S == {ExactTourCost(m, t) : t \in Tours(m)}
    IN  CHOOSE x \in S : \A y \in S : NumLeq(x, y)

\* t has length n+1, starts and ends at 0, and visits each of 1..n-1 once
IsTour(t, n) ==
    /\ Len(t) = n + 1
    /\ t[1] = 0
    /\ t[n + 1] = 0
    /\ \A c \in 1 .. n - 1 : Cardinality({k \in 2 .. n : t[k] = c}) = 1

\* the relabelling that exchanges cities a and b
Swap(a, b) == [c \in 0 .. N - 1 |-> IF c = a THEN b ELSE IF c = b THEN a ELSE c]

\* every relabelling is a composition of these
Swaps == {Swap(a, b) : a, b \in 0 .. N - 1}

\* m with the permutation p (old label to new label) applied to rows and columns
Relabel(m, p) ==
    LET inv == [c \in DOMAIN p |-> CHOOSE x \in DOMAIN p : p[x] = c]
    IN  [i \in DOMAIN m |-> [j \in DOMAIN m |-> m[inv[i]][inv[j]]]]

\* the tour t with each city replaced by its new label
RelabelTour(t, p) == [k \in DOMAIN t |-> p[t[k]]]

(* ------------------------------ claims -------------------------------- *)

\* C1: for n >= 2 the cost returned by held_karp_topdown and by
\* held_karp_bottomup is the cost of the cheapest Hamiltonian cycle through
\* city 0, as found by enumerating the orderings of cities 1..n-1.
C1_CostIsOptimal ==
    (solver \in {"topdown", "bottomup"} /\ Done /\ N >= 2)
        => Num(Cost) = BruteForce(d)

\* C2: on every square non-negative matrix the three solvers return the
\* same cost, i.e. each returned cost is a cost held_karp_recursive can
\* return.
C2_SameCost ==
    Done => \E r \in held_karp_recursive(d, scale) : Cost = r.dist

\* C3: the returned tour has length n+1, starts and ends at city 0, and its
\* interior is a permutation of 1..n-1.
C3_TourShape ==
    Done => IsTour(Tour, N)

\* C4: the returned cost is the sum of d[tour[k]][tour[k+1]] over the
\* returned tour.
C4_CostIsTourSum ==
    Done => Cost = TourCost(d, Tour)

\* C5: the three solvers return the same path on the same matrix, i.e. each
\* returned path is a path held_karp_recursive can return.
C5_SamePath ==
    Done => \E r \in held_karp_recursive(d, scale) : Tour = r.path

\* C6: on the 1 x 1 matrix [[0]] every solver returns cost 0 and tour [0, 0]:
\* the path a solver builds never grows past [0, 0], and what it returns is
\* (0, [0, 0]).
C6_Degenerate ==
    (N = 1 /\ d[0][0] = 0)
        => /\ Len(Tour) <= 2
           /\ Done => (Cost = 0 /\ Tour = <<0, 0>>)

\* C7: a matrix that is not square, or has no rows, is rejected: no solver
\* returns a (cost, tour) result for it.
C7_InvalidRejected ==
    ~IsSquare(d) => ~Done

\* C8: during one call of held_karp_topdown the part of f after the table
\* check runs at most once for each state (i, visited).
C8_ComputedOnce ==
    solver = "topdown"
        => \A i \in DOMAIN td.computed : \A v \in DOMAIN td.computed[i] :
               td.computed[i][v] <= 1

UniqueOptimum(m) ==
    Cardinality({t \in Tours(m) : ExactTourCost(m, t) = BruteForce(m)}) = 1

\* the closed tour t, read as a cycle, written from city 0 on
RotateToZero(t) ==
    LET n == Len(t) - 1
        k == CHOOSE x \in 1 .. n : t[x] = 0
    IN  [x \in 1 .. n + 1 |-> t[((k + x - 2) % n) + 1]]

C10_DepsResolved ==
    /\ bu.pc # "TypeError"
    /\ bu.pc = "fill"
           => \A j \in 0 .. N - 1 :
                  ~Bit(j, bu.visited) => bu.dp[j][Dep(bu.visited, j)] # None

\* the fill loop is at visited = 1 of a 3-city matrix: the entries it reads,
\* dp[1][3] and dp[2][5], were written by earlier iterations of the loop
C10_Witness ==
    /\ bu.pc = "fill"
    /\ N = 3
    /\ bu.visited = 1
    /\ bu.i = 0
    /\ bu.writes[1][3] = 1
    /\ bu.writes[2][5] = 1
    /\ bu.dp[1][3] # None
    /\ bu.dp[2][5] # None

\* the cities j with bit j of visited clear
Unvisited(visited) == {j \in 0 .. N - 1 : ~Bit(j, visited)}

\* the cities of U that lowest-j tie-breaking can keep: cand is least there,
\* and every smaller city of U is strictly worse, unless the tie is one
\* between rounded float sums, which the floats need not share
TieWinners(U, cand(_)) ==
    {j \in U : \A k \in U :
        /\ cand(j) <= cand(k)
        /\ (k < j /\ ~Rounded(cand(j), scale)) => cand(j) < cand(k)}

\* the states (i, visited) that f can be entered with and that are not the
\* base case: the start state, and every state whose city i is marked visited
InnerStates ==
    {st \in (0 .. N - 1) \X (0 .. Full(N) - 1) : st = <<0, 0>> \/ Bit(st[1], st[2])}

\* C11: ties go to the lowest j.  In held_karp_topdown every stored
\* child[i][visited] of a non-FULL state is the smallest unvisited j at which
\* d[i][j] + dp[j][visited | (1 << j)] is least, and dp[i][visited] is that
\* least value; in held_karp_recursive the path returned by f(i, visited, [])
\* is the smallest such j followed by a path f returns from j.  Sums of
\* floats are compared as the code computes them: a j is passed over for a
\* larger one only when the two sums are rounded ones of equal exact value.
C11_LowestJWins ==
    /\ solver = "topdown"
           => \A i \in 0 .. N - 1 : \A v \in 0 .. Full(N) - 1 :
                  td.child[i][v] # None
                      => LET cand(j) == d[i][j] + td.dp[j][SetBit(v, j)]
                         IN  /\ \A j \in Unvisited(v) : td.dp[j][SetBit(v, j)] # None
                             /\ td.child[i][v] \in TieWinners(Unvisited(v), cand)
                             /\ td.dp[i][v] = cand(td.child[i][v])
    /\ (solver = "recursive" /\ rec.pc = "done")
           => \A st \in InnerStates :
                  LET i == st[1]
                      v == st[2]
                      from(j) == RecF(d, j, SetBit(v, j), << >>, scale)
                      cand(j) == d[i][j] + (CHOOSE q \in from(j) : TRUE).dist
                  IN  \A r \in RecF(d, i, v, << >>, scale) :
                          \E j \in TieWinners(Unvisited(v), cand) :
                              /\ \A q \in from(j) : d[i][j] + q.dist = r.dist
                              /\ \E q \in from(j) : r.path = <<j>> \o q.path

\* a 3-city call of held_karp_topdown has returned; from the start state
\* cities 1 and 2 give the same non-zero cost, and child holds city 1
C11_Witness ==
    /\ solver = "topdown"
    /\ scale = 1
    /\ td.pc = "done"
    /\ N = 3
    /\ td.ans >= 1
    /\ d[0][1] + td.dp[1][3] = d[0][2] + td.dp[2][5]
    /\ td.child[0][1] = 1

\* C12: in the reconstruction of held_karp_bottomup every city j that passed
\* the tolerance test and was appended to the path is the city of the optimal
\* solution: with i the city before it and visited the set before it,
\* dp[i][visited] = d[i][j] + dp[j][visited | (1 << j)] exactly.
C12_MatchIsExact ==
    (bu.pc = "recon" /\ Len(bu.path) >= 2)
        => LET k == Len(bu.path)
               j == bu.path[k]
               i == bu.path[k - 1]
               visited == bu.visited - Pow2(j)
           IN  bu.dp[i][visited] = d[i][j] + bu.dp[j][bu.visited]

\* C13: a table entry is assigned at most once in one call: no entry of dp
\* (and child) of held_karp_topdown, and no entry of dp of held_karp_bottomup,
\* is assigned a second time.
C13_WrittenOnce ==
    /\ solver = "topdown"
           => \A i \in DOMAIN td.writes : \A v \in DOMAIN td.writes[i] :
                  td.writes[i][v] <= 1
    /\ solver = "bottomup"
           => \A i \in DOMAIN bu.writes : \A v \in DOMAIN bu.writes[i] :
                  bu.writes[i][v] <= 1

\* C14: every solver terminates on a square matrix with n >= 1.  The loop
\* `while next_ is not None` of held_karp_topdown is left once n entries have
\* been appended to [0], and every pass of `while visited != FULL` of
\* held_karp_bottomup finds an unvisited j that passes the tolerance test.
C14_LoopsEnd ==
    /\ td.pc = "recon"
           => /\ Len(td.path) <= N + 1
              /\ Len(td.path) = N + 1 => td.next_ = None
    /\ (bu.pc = "recon" /\ bu.visited # Full(N))
           => \A j \in BUMatch(d, bu, scale, 0) : j < N
    /\ bu.pc = "recon" => Len(bu.path) <= N

====
